---- MODULE Spec2Model ----
(***************************************************************************)
(* A model of calm/dsl/builtins/models/entity.py: the entity type system   *)
(* of calm-dsl (attribute validation, compile, decompile and the metadata  *)
(* side channel carried in the description text).                          *)
(***************************************************************************)
EXTENDS Integers, Sequences, FiniteSets, TLC

(***************************************************************************)
(* Bounds of the model.                                                    *)
(***************************************************************************)
\* definition slots (entity classes alive at once)
MaxDefs == 2
\* Variable objects the user has constructed
MaxVars == 2

DefIds == 1..MaxDefs
VarIds == 1..MaxVars

\* Records: a record constructor lists its fields in the order in which the
\* field names first occur in this module, which is the order TLC keeps a
\* record in; a record is then never rearranged after it was built.

\* Python's None, where a string is expected
None == "<None>"

(***************************************************************************)
(* Strings.  A Python str is modelled by what find()/slicing of the        *)
(* metadata marker see of it: the text before the first occurrence of      *)
(* sep_string (pre), whether sep_string occurs (marker), and the text      *)
(* after it (tail).  The tail is modelled by what YAML makes of it.        *)
(***************************************************************************)
sep_string == "### Calm DSL Metadata/Hints (Do not edit/change)"

\* the empty tail: nothing follows the marker (yaml.load gives None)
EmptyTail ==
  [shape |-> "empty", canon |-> TRUE, m2 |-> FALSE, mval |-> FALSE,
   display |-> None, dsl |-> None]

\* a tail that does not load as a mapping holding the calm_dsl_metadata record;
\* m2: sep_string occurs in it once more
BadTail(m2) ==
  [shape |-> "bad", canon |-> FALSE, m2 |-> m2, mval |-> FALSE,
   display |-> None, dsl |-> None]

\* a tail that loads as {calm_dsl_metadata: {display_name, dsl_name}};
\* canon: the text is exactly "\n" + yaml.dump(record); m2: sep_string occurs in
\* it once more, as a YAML comment, which the loader drops
MapTail(canon, m2, display, dsl) ==
  [shape |-> "map", canon |-> canon, m2 |-> m2, mval |-> FALSE,
   display |-> display, dsl |-> dsl]

\* such a tail in which sep_string occurs once more inside a value of the
\* mapping (a key next to the record's), which the loader keeps
ValueTail(display, dsl) ==
  [shape |-> "map", canon |-> FALSE, m2 |-> TRUE, mval |-> TRUE,
   display |-> display, dsl |-> dsl]

Text(pre, marker, tail) == [pre |-> pre, marker |-> marker, tail |-> tail]

\* a string in which sep_string does not occur
Plain(s) == Text(s, FALSE, EmptyTail)

\* the empty string
EmptyStr == Plain("")

\* None where a str is expected (a class without docstring, a missing key)
NoneStr == Plain(None)

\* Python truthiness of a str-or-None
Truthy(x) == x # EmptyStr /\ x # NoneStr

\* number of occurrences of sep_string in a text
MarkerCount(x) == (IF x.marker THEN 1 ELSE 0) + (IF x.tail.m2 THEN 1 ELSE 0)

(***************************************************************************)
(* The metadata codec: ruamel.yaml's safe load and dump, as compile and    *)
(* decompile use them.                                                     *)
(***************************************************************************)
\* md_obj = yaml.load(md_str); md_obj["calm_dsl_metadata"]: raises unless the
\* tail is a mapping with that root key.  Comments and layout are lost, the
\* values are kept (mval: one of them holds sep_string).
yaml_load(tail) ==
  IF tail.shape = "map"
    THEN [mval |-> tail.mval, display |-> tail.display, dsl |-> tail.dsl, ok |-> TRUE]
    ELSE [mval |-> FALSE, display |-> None, dsl |-> None, ok |-> FALSE]

\* a dump that leaves the dsl_name key out
yaml_dump_lossy(md) ==
  [shape |-> "map", canon |-> TRUE, m2 |-> md.mval, mval |-> md.mval,
   display |-> md.display, dsl |-> None]

\* "\n" + stream.getvalue() after yaml.dump(md_obj, stream): the canonical
\* block of the mapping, without comments
yaml_dump(md) ==
  [shape |-> "map", canon |-> TRUE, m2 |-> md.mval, mval |-> md.mval,
   display |-> md.display, dsl |-> md.dsl]

(***************************************************************************)
(* Names.  get_valid_identifier is imported from .utils, which is not part *)
(* of the sources at hand: it is modelled as the coercion of a name to a   *)
(* valid identifier (a valid identifier is returned unchanged).            *)
(***************************************************************************)
\* class names a user writes
Identifiers == {"Svc", "Db"}
\* names that are not identifiers (display names)
DisplayNames == {"my svc"}
\* every name of the model
Names == Identifiers \cup DisplayNames

IsIdentifier(s) == s \notin DisplayNames

get_valid_identifier(s) ==
  IF IsIdentifier(s) THEN s
  ELSE CASE s = "my svc" -> "mysvc"
         [] OTHER -> "_"

(***************************************************************************)
(* Values: what an attribute of a definition or a key of a wire mapping    *)
(* holds.  t is the Python type, s the text of a str, id the identity of   *)
(* an object (a Variable, a descriptor, an Action, a list) or the number   *)
(* of an int.                                                              *)
(***************************************************************************)
Val(t, s, id) == [s |-> s, t |-> t, id |-> id]
StrVal(x) == Val("str", x, 0)
IntVal(n) == Val("int", NoneStr, n)
NoneVal == Val("None", NoneStr, 0)
\* a Variable entity (CalmVariable.Simple(...)): object i
VarVal(i) == Val("Variable", NoneStr, i)
\* an object whose class is descriptor-typed (isinstance(type(v), DescriptorType))
DescVal(i) == Val("Descriptor", NoneStr, i)
\* the Action entity that reading action descriptor i off a class yields
ActVal(i) == Val("Action", NoneStr, i)
\* a list object
ListVal(id) == Val("list", NoneStr, id)
\* a nested wire mapping {"name": x, ...} (an element of a wire array)
DictVal(x) == Val("dict", x, 0)
\* a nested entity definition named x (what decompiling such an element gives)
EntityVal(x) == Val("entity", x, 0)

\* descriptor-typed objects: 1 is an action descriptor (reading it off the
\* class yields an Action entity), 2 a placeholder without __exception__,
\* 3 a placeholder carrying an __exception__
DescIds == {1, 2, 3}
DescKind(i) == CASE i = 1 -> "action" [] i = 2 -> "plain" [] OTHER -> "exc"

\* getattr(cls, name, value): the descriptor protocol
GetAttr(v) == IF v.t = "Descriptor" /\ DescKind(v.id) = "action" THEN ActVal(v.id) ELSE v

(***************************************************************************)
(* List objects.  A list is identified by who created it (own), for which  *)
(* definition slot (d) and under which key.                                *)
(***************************************************************************)
ListKeys == <<"variables", "actions", "packages", "labels">>
KeyCode(k) == CHOOSE i \in 1..Len(ListKeys) : ListKeys[i] = k
\* own: 1 a literal of the class body or of a wire mapping received,
\* 2 a default made by __new__, 3 a default made by compile,
\* 4 the copy update_attrs makes, 5 new_value of decompile
ListId(own, d, k) == own * 100 + d * 10 + KeyCode(k)
ListIds == {ListId(own, d, ListKeys[i]) : own \in 1..5, d \in 0..MaxDefs, i \in 1..Len(ListKeys)}

(***************************************************************************)
(* What get_schema_details returns for each kind (schema_props,            *)
(* validators, defaults, display_map).  The schemas are data read from the *)
(* platform's schema files; four kinds stand for them here: one declaring  *)
(* variables and actions, one declaring arrays, one without description,   *)
(* one declaring a property validated by an object validator.              *)
(***************************************************************************)
Kinds == {"Service", "Deployment", "Ref", "Substrate"}

Range(seq) == {seq[i] : i \in 1..Len(seq)}

\* schema_props, in schema order
schema_props(kind) ==
  CASE kind = "Service" -> <<"name", "description", "variables", "actions">>
    [] kind = "Deployment" -> <<"name", "description", "packages", "labels">>
    [] kind = "Substrate" -> <<"name", "description", "variables", "actions", "readiness_probe">>
    [] OTHER -> <<"name", "kind">>

\* validators[name] = (ValidatorType, is_array); vt names the validator's
\* __kind__
validators(kind) ==
  [name \in Range(schema_props(kind)) |->
     CASE name = "variables" -> [vt |-> "Variable", is_array |-> TRUE]
       [] name = "actions" -> [vt |-> "Action", is_array |-> TRUE]
       [] name = "packages" -> [vt |-> "Ref", is_array |-> TRUE]
       [] name = "labels" -> [vt |-> "str", is_array |-> TRUE]
       [] name = "readiness_probe" -> [vt |-> "object", is_array |-> FALSE]
       [] OTHER -> [vt |-> "str", is_array |-> FALSE]]

\* defaults[name]: the type the factory makes
defaults(kind) ==
  [name \in Range(schema_props(kind)) |->
     IF validators(kind)[name].is_array THEN "list"
     ELSE IF validators(kind)[name].vt = "object" THEN "dict" ELSE "str"]

\* display_map[name]: the wire key
display_map(kind) ==
  [name \in Range(schema_props(kind)) |->
     CASE name = "variables" -> "variable_list"
       [] name = "actions" -> "action_list"
       [] name = "packages" -> "package_local_reference_list"
       [] OTHER -> name]

get_schema_details(kind) ==
  [schema_props |-> schema_props(kind), display_map |-> display_map(kind),
   validator_dict |-> validators(kind), default_attrs |-> defaults(kind)]

\* validators with __is_object__ (object dictionaries)
IsObjectValidator(vt) == vt = "object"

\* entity kinds: their validator's __kind__ has a decompile method
HasDecompile(vt) == vt \in {"Variable", "Action", "Ref"}

(***************************************************************************)
(* The state.                                                              *)
(***************************************************************************)
VARIABLES
  subclasses,  \* EntityTypeBase.subclasses: schema name -> the type registered (0: none)
  descriptors, \* per schema name, the attributes __init_subclass__ set on its type
  defs,        \* the entity definitions (classes): slot -> definition
  varname,     \* the name attribute of each Variable object ("" until set)
  lists,       \* the list objects: id -> elements
  body,        \* the class body being executed (an EntityDict), if any
  out,         \* per slot, the wire mapping the caller holds for it
  last,        \* the last operation: its arguments, the state before, its result
  launch       \* the run of launch_blueprint_simple: its position and what it saw

vars == <<subclasses, descriptors, defs, varname, lists, body, out, last, launch>>

\* a type that __init_subclass__ gave no tables (the base case, or none yet)
NoDescriptor ==
  [schema_props |-> <<>>, display_map |-> <<>>, validator_dict |-> <<>>,
   default_attrs |-> <<>>]

\* __schema_props__ of the kind's type, in schema order
Props(kind) == descriptors[kind].schema_props

\* the keys of __validator_dict__
VdictKeys(kind) == DOMAIN descriptors[kind].validator_dict

\* __validator_dict__[name] = (ValidatorType, is_array)
Validator(kind, name) == descriptors[kind].validator_dict[name]

\* __default_attrs__[name]: the factory's type
DefaultFactory(kind, name) == descriptors[kind].default_attrs[name]

\* __display_map__[name]: the wire key
DisplayKey(kind, name) == descriptors[kind].display_map[name]

\* a wire mapping is a function from its keys to values; the empty mapping
NoDict == [k \in {} |-> NoneVal]

\* schema names the registry is asked for
RegistryNames == {"Variable", "Action", "Descriptor"}

\* a definition: kind (its metaclass), name (__name__), doc (__doc__), dict (the
\* attributes of its __dict__, in order), base (the definition it subclasses;
\* 0: Entity, which has no attributes).  Two fields record history: origin,
\* the mapping it was decompiled from when that was a compile result and it was
\* not compiled since; prev, its last compile result while no attribute was
\* assigned since.  nset counts the assignments made on the class.
NoDef ==
  [kind |-> "", name |-> None, live |-> FALSE, doc |-> NoneStr, dict |-> <<>>,
   base |-> 0, origin |-> NoDict, prev |-> NoDict, nset |-> 0]

\* an attribute of a class __dict__ / an item of attrs
Entry(k, v) == [v |-> v, k |-> k]

Keys(dict) == {dict[i].k : i \in 1..Len(dict)}

HasKey(dict, k) == k \in Keys(dict)

Get(dict, k) == dict[CHOOSE i \in 1..Len(dict) : dict[i].k = k].v

\* dict[k] = v: an existing key keeps its place, a new key goes last
Put(dict, k, v) ==
  IF HasKey(dict, k)
    THEN [i \in 1..Len(dict) |-> IF dict[i].k = k THEN Entry(k, v) ELSE dict[i]]
    ELSE Append(dict, Entry(k, v))

\* dict.pop(k)
Pop(dict, k) == SelectSeq(dict, LAMBDA e : e.k # k)

IsDunder(name) == name \in {"__install__", "__env__", "__validator_dict__"}

\* hasattr(cls, k) and getattr(cls, k) of the class in slot d of ds: its own
\* __dict__, then its bases'
RECURSIVE HasAttr(_, _, _)
HasAttr(ds, d, k) ==
  IF d = 0 THEN FALSE
  ELSE HasKey(ds[d].dict, k) \/ HasAttr(ds, ds[d].base, k)

\* issubclass: the class in slot e is the one in slot d or derives from it
RECURSIVE IsSubclass(_, _, _)
IsSubclass(ds, e, d) ==
  IF e = 0 THEN FALSE ELSE e = d \/ IsSubclass(ds, ds[e].base, d)

RECURSIVE ClassAttr(_, _, _)
ClassAttr(ds, d, k) ==
  IF HasKey(ds[d].dict, k) THEN Get(ds[d].dict, k) ELSE ClassAttr(ds, ds[d].base, k)

(***************************************************************************)
(* ValidatorType.validate(value, is_array) of the property validators      *)
(* (calm.dsl.builtins.models.validator, not among the sources): an         *)
(* isinstance check of the value, or of every element of a list.           *)
(***************************************************************************)
IsInstance(v, vt) ==
  CASE vt = "str" -> v.t = "str"
    [] vt = "Variable" -> v.t = "Variable"
    [] vt = "Action" -> v.t = "Action"
    [] vt = "Ref" -> v.t = "entity"
    [] OTHER -> v.t = "dict"

Accepts(vt, is_array, v, ls) ==
  IF is_array
    THEN v.t = "list" /\ \A i \in 1..Len(ls[v.id]) : IsInstance(ls[v.id][i], vt)
    ELSE IsInstance(v, vt)

(***************************************************************************)
(* _validate(vdict, name, value), lines 17-60.  reg is the registry, vn    *)
(* the Variables' names, ls the lists.  The result: err ("ok" or the       *)
(* exception raised), the value returned, the Variables' names afterwards. *)
(***************************************************************************)
Raise(e, v, vn) == [varname |-> vn, err |-> e, value |-> v]
Return(v, vn) == [varname |-> vn, err |-> "ok", value |-> v]

\* the variant that forgets to re-raise for a value that is no Variable and
\* no descriptor
ValidateFallbackAdmits(kind, name, value, reg, vn, e) ==
  IF reg["Variable"] = 0 THEN Raise("VariableTypeNotDefined", value, vn)
  ELSE IF reg["Descriptor"] = 0 THEN Raise("DescriptorTypeNotDefined", value, vn)
  ELSE IF value.t = "Variable" /\ "variables" \in VdictKeys(kind)
    THEN Return(value, [vn EXCEPT ![value.id] = name])
    ELSE Return(value, vn)

\* lines 30-56, entered with the TypeError e caught
ValidateFallback(kind, name, value, reg, vn, e) ==
  LET isVar == value.t = "Variable"
      isDesc == value.t = "Descriptor"
  IN  IF reg["Variable"] = 0 THEN Raise("VariableTypeNotDefined", value, vn)
      ELSE IF reg["Descriptor"] = 0 THEN Raise("DescriptorTypeNotDefined", value, vn)
      ELSE IF ~(("variables" \in VdictKeys(kind) /\ isVar)
                \/ ("actions" \in VdictKeys(kind) /\ isDesc))
        THEN Raise(e, value, vn)
      ELSE IF isVar
        \* setattr(value, "name", name), then VariableValidator.validate(value, False)
        THEN Return(value, [vn EXCEPT ![value.id] = name])
        \* ValidatorType = None
        ELSE Return(value, vn)

\* the variant that looks the Variable and Descriptor types up before it
\* looks at the validator map
_validate_registry_first(kind, name, value, reg, vn, ls) ==
  IF IsDunder(name) THEN Return(value, vn)
  ELSE IF reg["Variable"] = 0 THEN Raise("VariableTypeNotDefined", value, vn)
  ELSE IF reg["Descriptor"] = 0 THEN Raise("DescriptorTypeNotDefined", value, vn)
  ELSE IF name \notin VdictKeys(kind)
    THEN ValidateFallback(kind, name, value, reg, vn, "UnknownAttribute")
  ELSE LET val == Validator(kind, name)
       IN  IF Accepts(val.vt, val.is_array, value, ls)
             THEN Return(value, vn)
             ELSE IF IsObjectValidator(val.vt)
                    THEN ValidateFallback(kind, name, value, reg, vn, "ValidatorTypeError")
                    ELSE Raise("ValidatorTypeError", value, vn)

_validate(kind, name, value, reg, vn, ls) ==
  IF IsDunder(name) THEN Return(value, vn)
  ELSE IF name \notin VdictKeys(kind)
    THEN ValidateFallback(kind, name, value, reg, vn, "UnknownAttribute")
  ELSE LET val == Validator(kind, name)
       IN  IF IsObjectValidator(val.vt)
             THEN IF Accepts(val.vt, val.is_array, value, ls)
                    THEN Return(value, vn)
                    ELSE ValidateFallback(kind, name, value, reg, vn, "ValidatorTypeError")
             ELSE IF Accepts(val.vt, val.is_array, value, ls)
                    THEN Return(value, vn)
                    ELSE Raise("ValidatorTypeError", value, vn)

(***************************************************************************)
(* Defaults and class creation.                                            *)
(***************************************************************************)
\* value(): what a default factory returns; a list factory returns a new
\* list object, named by the caller's (own, d)
DefaultValue(kind, k, own, d) ==
  CASE DefaultFactory(kind, k) = "list" -> ListVal(ListId(own, d, k))
    [] DefaultFactory(kind, k) = "dict" -> DictVal(EmptyStr)
    [] OTHER -> StrVal(EmptyStr)

\* get_default_attrs, lines 209-218: ret[key] = value() for every default
get_default_attrs(kind, own, d) ==
  [i \in 1..Len(Props(kind)) |-> Entry(Props(kind)[i], DefaultValue(kind, Props(kind)[i], own, d))]

\* the lists a sequence of entries newly made holds, all empty
WithNewLists(ls, entries) ==
  [id \in ListIds |->
     IF \E i \in 1..Len(entries) : entries[i].v = ListVal(id) THEN <<>> ELSE ls[id]]

\* EntityType.__new__, lines 149-169: the class gets the body's entries, then
\* every default it has no attribute for yet, its own or inherited (hasattr)
SetDefaults(dict, dflt, base, ds) ==
  dict \o SelectSeq(dflt, LAMBDA e : ~HasKey(dict, e.k) /\ ~HasAttr(ds, base, e.k))

NewClass(kind, name, doc, entitydict, d, base, ds) ==
  [kind |-> kind, name |-> name, live |-> TRUE, doc |-> doc,
   dict |-> SetDefaults(entitydict, get_default_attrs(kind, 2, d), base, ds),
   base |-> base, origin |-> NoDict, prev |-> NoDict, nset |-> 0]

\* the lists after __new__: the defaults that were attached are new, empty lists
NewClassLists(kind, entitydict, d, base, ds, ls) ==
  WithNewLists(ls, SelectSeq(get_default_attrs(kind, 2, d),
                             LAMBDA e : ~HasKey(entitydict, e.k) /\ ~HasAttr(ds, base, e.k)))

(***************************************************************************)
(* get_user_attrs, lines 191-207, and get_all_attrs, lines 266-271.        *)
(***************************************************************************)
RegistryComplete(reg) == \A n \in RegistryNames : reg[n] # 0

\* the entries of cls.__dict__ that are kept: dunder names only when they hold
\* a Variable, an Action or a descriptor-typed object; each read with getattr
get_user_attrs(def) ==
  LET kept == SelectSeq(def.dict,
                LAMBDA e : ~IsDunder(e.k) \/ e.v.t \in {"Variable", "Action", "Descriptor"})
  IN  [i \in 1..Len(kept) |-> Entry(kept[i].k, GetAttr(kept[i].v))]

\* {**default_attrs, **user_attrs}: a default's key keeps its place and takes
\* the user's value, the other user keys follow in their order
Merge(dflt, user) ==
  [i \in 1..Len(dflt) |->
     IF HasKey(user, dflt[i].k) THEN Entry(dflt[i].k, Get(user, dflt[i].k)) ELSE dflt[i]]
  \o SelectSeq(user, LAMBDA e : ~HasKey(dflt, e.k))

get_all_attrs(def, d) == Merge(get_default_attrs(def.kind, 3, d), get_user_attrs(def))

(***************************************************************************)
(* update_attrs, lines 220-264: the promotion of Variables and Actions     *)
(* into the variables and actions lists.                                   *)
(***************************************************************************)
\* lines 244-260, one key after the other; acc: the exception raised (err),
\* attr_name as last bound, what was appended to each list, del_keys
RECURSIVE Promote(_, _, _, _)
Promote(kind, attrs, i, acc) ==
  IF i > Len(attrs) \/ acc.err # "ok" THEN acc
  ELSE
    LET e == attrs[i]
        attr_name == CASE e.v.t = "Action" -> "actions"
                       [] e.v.t = "Variable" -> "variables"
                       [] OTHER -> acc.attr_name
        err == CASE e.v.t \in {"Action", "Variable"} -> "ok"
                 [] e.v.t = "Descriptor" /\ DescKind(e.v.id) = "exc" -> "CarriedException"
                 [] e.v.t = "Descriptor" -> "ok"
                 [] OTHER -> "UnhandledField"
        \* attrs[attr_name].append(value)
        err2 == IF err # "ok" THEN err
                ELSE IF attr_name = None THEN "UnboundLocalError"
                ELSE IF ~HasKey(attrs, attr_name) THEN "KeyError"
                ELSE "ok"
    IN  IF e.k \in VdictKeys(kind) THEN Promote(kind, attrs, i + 1, acc)
        ELSE IF err2 # "ok" THEN [acc EXCEPT !.err = err2]
        ELSE Promote(kind, attrs, i + 1,
               [err |-> "ok", attr_name |-> attr_name,
                vs |-> IF attr_name = "variables" THEN Append(acc.vs, e.v) ELSE acc.vs,
                as |-> IF attr_name = "actions" THEN Append(acc.as, e.v) ELSE acc.as,
                del |-> acc.del \cup {e.k}])

\* list(attrs.get(k, [])): a new list with the same elements
CopyOf(attrs, k, ls) == IF HasKey(attrs, k) THEN ls[Get(attrs, k).id] ELSE <<>>

\* the variant that appends to the lists the attrs hold, without copying them
update_attrs_in_place(kind, attrs, d, ls) ==
  IF "variables" \notin VdictKeys(kind) /\ "actions" \notin VdictKeys(kind)
    THEN [lists |-> ls, err |-> "ok", attrs |-> attrs]
  ELSE
    LET hasA == "actions" \in VdictKeys(kind)
        vid == IF HasKey(attrs, "variables") THEN Get(attrs, "variables").id
               ELSE ListId(4, d, "variables")
        aid == IF HasKey(attrs, "actions") THEN Get(attrs, "actions").id
               ELSE ListId(4, d, "actions")
        a1 == Put(attrs, "variables", ListVal(vid))
        a2 == IF hasA THEN Put(a1, "actions", ListVal(aid)) ELSE a1
        acc == Promote(kind, a2, 1,
                 [err |-> "ok", attr_name |-> None, vs |-> <<>>, as |-> <<>>, del |-> {}])
        ls2 == [ls EXCEPT ![vid] = CopyOf(attrs, "variables", ls) \o acc.vs,
                          ![aid] = IF hasA THEN CopyOf(attrs, "actions", ls) \o acc.as
                                   ELSE ls[aid]]
    IN  [lists |-> ls2,
         err |-> acc.err,
         attrs |-> SelectSeq(a2, LAMBDA e : e.k \notin acc.del)]

\* the result: err, the attrs afterwards, the lists afterwards
update_attrs(kind, attrs, d, ls) ==
  IF "variables" \notin VdictKeys(kind) /\ "actions" \notin VdictKeys(kind)
    THEN [lists |-> ls, err |-> "ok", attrs |-> attrs]
  ELSE
    LET hasA == "actions" \in VdictKeys(kind)
        vid == ListId(4, d, "variables")
        aid == ListId(4, d, "actions")
        a1 == Put(attrs, "variables", ListVal(vid))
        a2 == IF hasA THEN Put(a1, "actions", ListVal(aid)) ELSE a1
        acc == Promote(kind, a2, 1,
                 [err |-> "ok", attr_name |-> None, vs |-> <<>>, as |-> <<>>, del |-> {}])
        ls2 == [ls EXCEPT ![vid] = CopyOf(attrs, "variables", ls) \o acc.vs,
                          ![aid] = IF hasA THEN CopyOf(attrs, "actions", ls) \o acc.as
                                   ELSE ls[aid]]
    IN  [lists |-> ls2,
         err |-> acc.err,
         attrs |-> SelectSeq(a2, LAMBDA e : e.k \notin acc.del)]

(***************************************************************************)
(* compile, lines 297-358.                                                 *)
(***************************************************************************)
DictSet(cdict, k, v) == [x \in (DOMAIN cdict) \cup {k} |-> IF x = k THEN v ELSE cdict[x]]

DictPop(cdict, k) == [x \in (DOMAIN cdict) \ {k} |-> cdict[x]]

DictGet(cdict, k) == IF k \in DOMAIN cdict THEN cdict[k] ELSE NoneVal

\* lines 302-308: cdict.setdefault(display_map[k], v) for every item of attrs
ToWire(kind, attrs) ==
  [wk \in {DisplayKey(kind, attrs[i].k) : i \in 1..Len(attrs)} |->
     attrs[CHOOSE i \in 1..Len(attrs) :
             /\ DisplayKey(kind, attrs[i].k) = wk
             /\ \A j \in 1..(i - 1) : DisplayKey(kind, attrs[j].k) # wk].v]

\* the variant that emits the identifier whatever the name is
NameDefaultAlways(cdict, def) ==
  IF "name" \in DOMAIN cdict
    THEN DictSet(cdict, "name", StrVal(Plain(def.name)))
    ELSE cdict

\* lines 310-315: the defaults of name and description
NameDefault(cdict, def) ==
  IF "name" \in DOMAIN cdict /\ cdict["name"] = StrVal(EmptyStr)
    THEN DictSet(cdict, "name", StrVal(Plain(def.name)))
    ELSE cdict

DescriptionDefault(cdict, def) ==
  IF "description" \in DOMAIN cdict /\ cdict["description"] = StrVal(EmptyStr)
    THEN DictSet(cdict, "description", StrVal(IF Truthy(def.doc) THEN def.doc ELSE EmptyStr))
    ELSE cdict

\* lines 339-344: the record to dump, and whether the name is overridden
CompileRenames(md, dsl_name) ==
  Truthy(dsl_name.s) /\ md.display # None /\ Plain(md.display) # dsl_name.s

CompileRecord(md, dsl_name) ==
  IF CompileRenames(md, dsl_name)
    THEN [md EXCEPT !.dsl = dsl_name.s.pre]
    ELSE md

\* the variant that keeps the description cut at the marker (line 324) when
\* the tail does not load
CompileMetadataCut(cdict, clsname) ==
  IF "description" \notin DOMAIN cdict THEN [name |-> clsname, cdict |-> cdict]
  ELSE
    LET description == cdict["description"].s
        md == yaml_load(description.tail)
        dsl_name == DictGet(cdict, "name")
    IN  IF ~description.marker THEN [name |-> clsname, cdict |-> cdict]
        ELSE IF ~md.ok
          THEN [name |-> clsname,
                cdict |-> DictSet(cdict, "description",
                                  StrVal(Text(description.pre, TRUE, EmptyTail)))]
        ELSE
          LET renames == CompileRenames(md, dsl_name)
              c1 == IF renames THEN DictSet(cdict, "name", StrVal(Plain(md.display))) ELSE cdict
              new == Text(description.pre, TRUE, yaml_dump(CompileRecord(md, dsl_name)))
          IN  [name |-> IF renames THEN md.display ELSE clsname,
               cdict |-> DictSet(c1, "description", StrVal(new))]

\* the variant that writes the marker once more in front of the block dumped
\* (description + sep_string + "\n" + md_new_str)
CompileMetadataTwice(cdict, clsname) ==
  IF "description" \notin DOMAIN cdict THEN [name |-> clsname, cdict |-> cdict]
  ELSE
    LET description == cdict["description"].s
        md == yaml_load(description.tail)
        dsl_name == DictGet(cdict, "name")
    IN  IF ~description.marker \/ ~md.ok THEN [name |-> clsname, cdict |-> cdict]
        ELSE
          LET renames == CompileRenames(md, dsl_name)
              c1 == IF renames THEN DictSet(cdict, "name", StrVal(Plain(md.display))) ELSE cdict
              dumped == yaml_dump(CompileRecord(md, dsl_name))
              new == Text(description.pre, TRUE, [dumped EXCEPT !.canon = FALSE, !.m2 = TRUE])
          IN  [name |-> IF renames THEN md.display ELSE clsname,
               cdict |-> DictSet(c1, "description", StrVal(new))]

\* lines 317-352: the metadata of the description; the result: the mapping and
\* the class name (cls.__name__) afterwards
CompileMetadata(cdict, clsname) ==
  IF "description" \notin DOMAIN cdict THEN [name |-> clsname, cdict |-> cdict]
  ELSE
    LET description == cdict["description"].s
        md == yaml_load(description.tail)
        dsl_name == DictGet(cdict, "name")
    IN  IF ~description.marker \/ ~md.ok THEN [name |-> clsname, cdict |-> cdict]
        ELSE
          LET renames == CompileRenames(md, dsl_name)
              c1 == IF renames THEN DictSet(cdict, "name", StrVal(Plain(md.display))) ELSE cdict
              new == Text(description.pre, TRUE, yaml_dump(CompileRecord(md, dsl_name)))
          IN  [name |-> IF renames THEN md.display ELSE clsname,
               cdict |-> DictSet(c1, "description", StrVal(new))]

\* the result: err, the wire mapping, cls.__name__ afterwards, the lists
\* afterwards, and the mapping as it stood after line 315 (c2)
compile(def, d, reg, ls) ==
  LET failed(e) == [name |-> def.name, lists |-> ls, err |-> e, cdict |-> NoDict,
                    c2 |-> NoDict]
      attrs == get_all_attrs(def, d)
      upd == update_attrs(def.kind, attrs, d, ls)
  IN  IF ~RegistryComplete(reg) THEN failed("IsinstanceTypeError")
      ELSE IF upd.err # "ok" THEN failed(upd.err)
      ELSE IF \E i \in 1..Len(upd.attrs) : upd.attrs[i].k \notin VdictKeys(def.kind)
        THEN failed("KeyError")
      ELSE
        LET c0 == ToWire(def.kind, upd.attrs)
            c2 == DescriptionDefault(NameDefault(c0, def), def)
            md == CompileMetadata(c2, def.name)
        IN  [name |-> md.name, lists |-> upd.lists, err |-> "ok", cdict |-> md.cdict,
             c2 |-> c2]

(***************************************************************************)
(* get_name, lines 273-295: the name get_ref stores in a reference.        *)
(***************************************************************************)
\* getattr(cls, k, dflt): the attribute of the class or of a base
GetAttrOr(ds, d, k, dflt) == IF HasAttr(ds, d, k) THEN ClassAttr(ds, d, k) ELSE dflt

get_name(ds, d) ==
  LET attr == GetAttrOr(ds, d, "description", StrVal(EmptyStr))
      description == IF attr.t = "str" /\ Truthy(attr.s) THEN attr.s ELSE ds[d].doc
      md == yaml_load(description.tail)
      display_name == IF description # NoneStr /\ description.marker /\ md.ok
                        THEN md.display ELSE None
      name == GetAttrOr(ds, d, "name", NoneVal)
  IN  IF display_name # None THEN display_name
      ELSE IF name.t = "str" /\ Truthy(name.s) THEN name.s.pre
      ELSE ds[d].name

\* a wire mapping with every list replaced by its elements: what == compares
Resolved(cdict, ls) ==
  [k \in DOMAIN cdict |->
     IF cdict[k].t = "list" THEN [t |-> "list", items |-> ls[cdict[k].id]]
     ELSE [t |-> "value", items |-> <<cdict[k]>>]]

(***************************************************************************)
(* decompile, lines 360-465.                                               *)
(***************************************************************************)
\* lines 384-395: the name and the record to dump
DecompileRenames(md, name) == md.dsl # None /\ name # md.dsl

DecompileRecord(md, name) ==
  IF DecompileRenames(md, name) THEN [md EXCEPT !.dsl = None] ELSE md

\* lines 368-398: the name and the documentation text the metadata gives
DecompileMetadata(name, description) ==
  IF description = NoneStr \/ ~description.marker
    THEN [name |-> name, doc |-> description]
  ELSE
    LET md == yaml_load(description.tail)
    IN  IF ~md.ok
          \* description was cut at the marker before the try block
          THEN [name |-> name, doc |-> Text(description.pre, TRUE, EmptyTail)]
          ELSE [name |-> IF DecompileRenames(md, name) THEN md.dsl ELSE name,
                doc |-> Text(description.pre, TRUE, yaml_dump(DecompileRecord(md, name)))]

\* lines 405-406: the inverse of the display map (None: no entry)
InverseDisplay(kind, wk) ==
  IF \E p \in VdictKeys(kind) : DisplayKey(kind, p) = wk
    THEN CHOOSE p \in VdictKeys(kind) : DisplayKey(kind, p) = wk
    ELSE None

\* the variant without the test of lines 410-411: every key is taken
TakenKeysAll(kind, cdict) == DOMAIN cdict

\* lines 408-412: the wire keys taken, those with an inverse entry
TakenKeys(kind, cdict) == {wk \in DOMAIN cdict : InverseDisplay(kind, wk) # None}

\* the properties the keys taken stand for, in schema order
MappedProps(kind, cdict) ==
  SelectSeq(Props(kind), LAMBDA p : DisplayKey(kind, p) \in TakenKeys(kind, cdict))

\* str(v), and iterating over v, for the values that are no list
Repr(v) ==
  CASE v.t = "str" -> v
    [] v.t = "int" -> StrVal(Plain("5"))
    [] v.t = "None" -> StrVal(Plain("None"))
    [] OTHER -> StrVal(Plain("<repr>"))

Iterable(v) == v.t \in {"list", "str", "dict"}

Elements(v, ls) ==
  CASE v.t = "list" -> ls[v.id]
    [] v.t = "str" -> IF v.s = EmptyStr THEN <<>> ELSE <<StrVal(Plain("<char>"))>>
    [] OTHER -> <<StrVal(Plain("name"))>>

\* entity_type.decompile(val) for a nested value: an entity of that kind; a
\* value that is no mapping has no get()
NestedDecompile(vt, val) ==
  Val(IF vt = "Ref" THEN "entity" ELSE vt, val.s, 0)

\* lines 415-458 for one property: err and the new value's elements
DecompileValue(val, v, ls) ==
  IF HasDecompile(val.vt)
    THEN IF val.is_array
           THEN IF v.t # "list" THEN [err |-> "TypeMismatch", items |-> <<>>]
                ELSE IF \E i \in 1..Len(ls[v.id]) : ls[v.id][i].t # "dict"
                  THEN [err |-> "AttributeError", items |-> <<>>]
                ELSE [err |-> "ok",
                      items |-> [i \in 1..Len(ls[v.id]) |-> NestedDecompile(val.vt, ls[v.id][i])]]
           ELSE IF v.t # "dict" THEN [err |-> "AttributeError", items |-> <<>>]
                ELSE [err |-> "ok", items |-> <<NestedDecompile(val.vt, v)>>]
    ELSE IF val.is_array
           THEN IF ~Iterable(v) THEN [err |-> "NotIterable", items |-> <<>>]
                ELSE IF \E i \in 1..Len(Elements(v, ls)) : ~IsInstance(Elements(v, ls)[i], val.vt)
                  THEN [err |-> "TypeMismatch", items |-> <<>>]
                ELSE [err |-> "ok", items |-> Elements(v, ls)]
           ELSE [err |-> "ok", items |-> <<Repr(v)>>]

\* the attrs handed to the class constructor
DecompileAttrs(kind, cdict, d, ls) ==
  LET ps == MappedProps(kind, cdict)
  IN  [i \in 1..Len(ps) |->
         LET val == Validator(kind, ps[i])
             r == DecompileValue(val, cdict[DisplayKey(kind, ps[i])], ls)
         IN  Entry(ps[i], IF val.is_array THEN ListVal(ListId(5, d, ps[i])) ELSE r.items[1])]

DecompileErrors(kind, cdict, ls) ==
  LET ps == MappedProps(kind, cdict)
  IN  [i \in 1..Len(ps) |->
         DecompileValue(Validator(kind, ps[i]), cdict[DisplayKey(kind, ps[i])], ls).err]

DecompileLists(kind, cdict, d, ls) ==
  [id \in ListIds |->
     IF \E p \in Range(MappedProps(kind, cdict)) :
          Validator(kind, p).is_array /\ id = ListId(5, d, p)
       THEN LET p == CHOOSE p \in Range(MappedProps(kind, cdict)) :
                       Validator(kind, p).is_array /\ id = ListId(5, d, p)
            IN  DecompileValue(Validator(kind, p), cdict[DisplayKey(kind, p)], ls).items
       ELSE ls[id]]

\* the result: err, the new definition (in slot d; its bases are (Entity,)),
\* the lists afterwards, and the mapping passed in as decompile leaves it
decompile(kind, cdict0, d, reg, vn, ls) ==
  LET nameval == DictGet(cdict0, "name")
      name0 == IF "name" \in DOMAIN cdict0 THEN nameval.s.pre ELSE kind
      description == IF "description" \in DOMAIN cdict0 THEN cdict0["description"].s ELSE NoneStr
      cdict == DictPop(cdict0, "description")
      md == DecompileMetadata(name0, description)
      dsl_class_name == get_valid_identifier(md.name)
      errs == DecompileErrors(kind, cdict, ls)
      attrs == DecompileAttrs(kind, cdict, d, ls)
      ls1 == DecompileLists(kind, cdict, d, ls)
      failed(e) == [lists |-> ls, err |-> e, def |-> NoDef, cdict |-> cdict]
  IN  IF \E wk \in TakenKeys(kind, cdict) : InverseDisplay(kind, wk) = None
        \* display_map[k], line 412
        THEN failed("KeyError")
      ELSE IF \E i \in 1..Len(errs) : errs[i] # "ok"
        THEN failed(errs[CHOOSE i \in 1..Len(errs) :
                           errs[i] # "ok" /\ \A j \in 1..(i - 1) : errs[j] = "ok"])
      ELSE IF \E i \in 1..Len(attrs) :
                _validate(kind, attrs[i].k, attrs[i].v, reg, vn, ls1).err # "ok"
        THEN failed("ValidatorTypeError")
      ELSE [lists |-> NewClassLists(kind, attrs, d, 0, <<>>, ls1),
            err |-> "ok",
            def |-> NewClass(kind, dsl_class_name, md.doc, attrs, d, 0, <<>>),
            cdict |-> cdict]

(***************************************************************************)
(* EntityJSONDecoder.object_hook, lines 534-546.                           *)
(***************************************************************************)
\* types.get(kind, None): 0 stands for None
Lookup(reg, n) == IF n \in DOMAIN reg THEN reg[n] ELSE 0

\* the result: ret, what is returned ("mapping": attrs itself, "entity": a
\* definition, "none": an exception was raised), and decompile's result
object_hook(attrs, d, reg, vn, ls) ==
  IF "__kind__" \notin DOMAIN attrs
    THEN [lists |-> ls, err |-> "ok", def |-> NoDef, cdict |-> attrs, ret |-> "mapping"]
  ELSE
    LET kind == attrs["__kind__"].s.pre
    IN  IF Lookup(reg, kind) = 0
          THEN [lists |-> ls, err |-> "UnknownEntityType", def |-> NoDef, cdict |-> attrs,
                ret |-> "none"]
          ELSE LET r == decompile(kind, attrs, d, reg, vn, ls)
               IN  [lists |-> r.lists, err |-> r.err, def |-> r.def, cdict |-> r.cdict,
                    ret |-> IF r.err = "ok" THEN "entity" ELSE "none"]

(***************************************************************************)
(* The operations, as steps of a program that writes classes, assigns      *)
(* attributes, compiles and decompiles.                                    *)
(***************************************************************************)
NoBody ==
  [d |-> 0, kind |-> "", name |-> None, doc |-> NoneStr, dict |-> <<>>, base |-> 0,
   open |-> FALSE]

\* a slot of out: the mapping held (cdict); for a compile result, the
\* definition's kind, its identifier before that compile (ident0), whether that
\* compile changed the identifier (renamed), the mapping as compile returned it
\* (snap), and whether it is still as returned (virgin)
NoOut ==
  [kind |-> "", cdict |-> NoDict, has |-> FALSE, snap |-> NoDict, ident0 |-> None,
   renamed |-> FALSE, compiled |-> FALSE, virgin |-> FALSE]

Last(op, d, err, pre, k, v, arg, src) ==
  [pre |-> pre, v |-> v, k |-> k, d |-> d, err |-> err, op |-> op, arg |-> arg, src |-> src]

FreeSlots == {d \in DefIds : ~defs[d].live}
LowestFree == CHOOSE d \in FreeSlots : \A e \in FreeSlots : d <= e

\* the keys of the registry: the schema names, and None, the __schema_name__ of
\* EntityType itself
SchemaNames == Kinds \cup RegistryNames
RegistryKeys == SchemaNames \cup {None}

AllRegistered == [n \in RegistryKeys |-> 1]

\* no launch is running: nothing queried, nothing requested
NoLaunch ==
  [err |-> None, pc |-> "idle", app_name |-> FALSE, blueprint |-> FALSE,
   total_matches |-> -1, bp_status |-> "", requests |-> 0, queued |-> FALSE, polls |-> 0,
   count |-> 0, app_state |-> "", end |-> "", exc |-> None]

InitWith(reg) ==
  /\ launch = NoLaunch
  /\ subclasses = reg
  /\ descriptors = [n \in SchemaNames |->
                      IF reg[n] # 0 THEN get_schema_details(n) ELSE NoDescriptor]
  /\ defs = [d \in DefIds |-> NoDef]
  /\ varname = [i \in VarIds |-> ""]
  /\ lists = [id \in ListIds |-> <<>>]
  /\ body = NoBody
  /\ out = [d \in DefIds |-> NoOut]
  /\ last = Last("init", 0, "ok", NoDef, None, NoneVal, NoDict, NoOut)

\* a class statement that defines a type without __schema_name__
NoSchemaName == "<no __schema_name__>"

\* types defined under one schema name
MaxTypes == 2

\* the variant that keeps the type registered first (subclasses.setdefault)
init_subclass_setdefault(n) ==
  /\ ~body.open
  /\ IF n = NoSchemaName
       THEN /\ last' = Last("register", 0, "TypeError", NoDef, n, NoneVal, subclasses, NoOut)
            /\ UNCHANGED <<subclasses, descriptors>>
       ELSE /\ subclasses[n] < MaxTypes
            /\ subclasses' = [subclasses EXCEPT ![n] = IF @ = 0 THEN 1 ELSE @]
            /\ descriptors' = IF n = None THEN descriptors
                              ELSE [descriptors EXCEPT ![n] = get_schema_details(n)]
            /\ last' = Last("register", 0, "ok", NoDef, n, IntVal(subclasses[n] + 1),
                            subclasses, NoOut)
  /\ UNCHANGED <<launch, defs, varname, lists, body, out>>

\* EntityTypeBase.__init_subclass__, lines 84-115, for a new type with schema
\* name n: it is entered in the registry (the type is named by its number
\* among the types of that schema name) and, unless n is None, gets the tables
\* of get_schema_details; last.arg holds the registry before
init_subclass(n) ==
  /\ ~body.open
  /\ IF n = NoSchemaName
       THEN /\ last' = Last("register", 0, "TypeError", NoDef, n, NoneVal, subclasses, NoOut)
            /\ UNCHANGED <<subclasses, descriptors>>
       ELSE /\ subclasses[n] < MaxTypes
            /\ subclasses' = [subclasses EXCEPT ![n] = @ + 1]
            /\ descriptors' = IF n = None THEN descriptors
                              ELSE [descriptors EXCEPT ![n] = get_schema_details(n)]
            /\ last' = Last("register", 0, "ok", NoDef, n, IntVal(subclasses[n] + 1),
                            subclasses, NoOut)
  /\ UNCHANGED <<launch, defs, varname, lists, body, out>>

\* class <name>(<base>) of metaclass kind, with docstring doc: __prepare__;
\* base 0 is Entity, another base is a definition of that kind
ClassBegin(d, kind, name, doc, base) ==
  /\ ~body.open /\ FreeSlots # {} /\ d = LowestFree
  /\ base = 0 \/ (base \in DefIds /\ defs[base].live /\ defs[base].kind = kind)
  /\ body' = [d |-> d, kind |-> kind, name |-> name, doc |-> doc, dict |-> <<>>,
              base |-> base, open |-> TRUE]
  /\ last' = Last("class", d, "ok", NoDef, None, NoneVal, NoDict, NoOut)
  /\ UNCHANGED <<launch, subclasses, descriptors, defs, varname, lists, out>>

\* an assignment in the class body: EntityDict.__setitem__, lines 71-73; an
\* exception ends the class statement
ClassAssign(k, v) ==
  /\ body.open
  /\ \E r \in {_validate(body.kind, k, v, subclasses, varname, lists)} :
         /\ body' = IF r.err = "ok" THEN [body EXCEPT !.dict = Put(body.dict, k, r.value)]
                    ELSE NoBody
         /\ varname' = r.varname
         /\ last' = Last("setitem", body.d, r.err,
                         [NoDef EXCEPT !.kind = body.kind, !.dict = body.dict], k, v, NoDict, NoOut)
  /\ UNCHANGED <<launch, subclasses, descriptors, defs, lists, out>>

\* the end of the class body: EntityType.__new__
ClassEnd ==
  /\ body.open
  /\ defs' = [defs EXCEPT ![body.d] = NewClass(body.kind, body.name, body.doc, body.dict,
                                              body.d, body.base, defs)]
  /\ lists' = NewClassLists(body.kind, body.dict, body.d, body.base, defs, lists)
  /\ body' = NoBody
  /\ last' = Last("new", body.d, "ok", NoDef, None, NoneVal, NoDict, NoOut)
  /\ UNCHANGED <<launch, subclasses, descriptors, varname, out>>

\* assignments on one class
MaxSets == 1

\* the variant that sets a dunder attribute on the type of the class, where
\* the tables are
SetAttrOnType(d, k, v) ==
  /\ ~body.open /\ defs[d].live /\ defs[d].nset < MaxSets
  /\ \E r \in {_validate(defs[d].kind, k, v, subclasses, varname, lists)} :
         /\ defs' = IF r.err = "ok"
                      THEN [defs EXCEPT ![d].dict = Put(defs[d].dict, k, r.value),
                                        ![d].origin = NoDict, ![d].prev = NoDict,
                                        ![d].nset = @ + 1]
                      ELSE [defs EXCEPT ![d].nset = @ + 1]
         /\ descriptors' = IF r.err = "ok" /\ k = "__validator_dict__"
                             THEN [descriptors EXCEPT ![defs[d].kind].validator_dict = <<>>]
                             ELSE descriptors
         /\ varname' = r.varname
         /\ last' = Last("setattr", d, r.err, defs[d], k, v, NoDict, NoOut)
  /\ UNCHANGED <<launch, subclasses, lists, body, out>>

\* cls.<k> = v on a class that exists: EntityType.__setattr__, lines 177-183
SetAttr(d, k, v) ==
  /\ ~body.open /\ defs[d].live /\ defs[d].nset < MaxSets
  /\ \E r \in {_validate(defs[d].kind, k, v, subclasses, varname, lists)} :
         /\ defs' = IF r.err = "ok"
                      THEN [defs EXCEPT ![d].dict = Put(defs[d].dict, k, r.value),
                                        ![d].origin = NoDict, ![d].prev = NoDict,
                                        ![d].nset = @ + 1]
                      ELSE [defs EXCEPT ![d].nset = @ + 1]
         /\ varname' = r.varname
         /\ last' = Last("setattr", d, r.err, defs[d], k, v, NoDict, NoOut)
  /\ UNCHANGED <<launch, subclasses, descriptors, lists, body, out>>

\* cdict = cls.compile()
Compile(d) ==
  /\ ~body.open /\ defs[d].live
  /\ \E r \in {compile(defs[d], d, subclasses, lists)} :
     \E snap \in {Resolved(r.cdict, r.lists)} :
         /\ defs' = IF r.err = "ok"
                      THEN [defs EXCEPT ![d].name = r.name, ![d].prev = snap,
                                        ![d].origin = NoDict]
                      ELSE defs
         /\ lists' = IF r.err = "ok" THEN r.lists ELSE lists
         /\ out' = IF r.err = "ok"
                     THEN [out EXCEPT ![d] = [kind |-> defs[d].kind, cdict |-> r.cdict,
                                              has |-> TRUE, snap |-> snap,
                                              ident0 |-> defs[d].name,
                                              renamed |-> r.name # defs[d].name,
                                              compiled |-> TRUE, virgin |-> TRUE]]
                     ELSE out
         /\ last' = Last("compile", d, r.err, defs[d], None, NoneVal, r.c2, NoOut)
  /\ UNCHANGED <<launch, subclasses, descriptors, varname, body>>

\* cls = Kind.decompile(cdict), with the mapping held in slot s
Decompile(s) ==
  /\ ~body.open /\ out[s].has /\ FreeSlots # {}
  /\ \E d \in {LowestFree} :
     \E r \in {decompile(out[s].kind, out[s].cdict, d, subclasses, varname, lists)} :
         /\ defs' = IF r.err = "ok"
                      THEN [defs EXCEPT ![d] =
                              [r.def EXCEPT !.origin = IF out[s].compiled /\ out[s].virgin
                                                         THEN out[s].snap ELSE NoDict]]
                      ELSE defs
         /\ lists' = r.lists
         /\ out' = [out EXCEPT ![s].cdict = r.cdict, ![s].virgin = FALSE]
         /\ last' = Last("decompile", d, r.err, NoDef, None, NoneVal,
                         Resolved(out[s].cdict, lists), out[s])
  /\ UNCHANGED <<launch, subclasses, descriptors, varname, body>>

\* json.loads(..., cls=EntityJSONDecoder) of the text of the mapping held in
\* slot s: object_hook is handed the mapping
Decode(s) ==
  /\ ~body.open /\ out[s].has /\ FreeSlots # {}
  /\ \E d \in {LowestFree} :
     \E r \in {object_hook(out[s].cdict, d, subclasses, varname, lists)} :
         /\ defs' = IF r.ret = "entity"
                      THEN [defs EXCEPT ![d] =
                              [r.def EXCEPT !.origin = IF out[s].compiled /\ out[s].virgin
                                                         THEN out[s].snap ELSE NoDict]]
                      ELSE defs
         /\ lists' = r.lists
         /\ out' = [out EXCEPT ![s].cdict = r.cdict,
                               ![s].virgin = @ /\ r.cdict = out[s].cdict]
         /\ last' = Last("decode", d, r.err, NoDef, r.ret, NoneVal,
                         Resolved(out[s].cdict, lists), out[s])
  /\ UNCHANGED <<launch, subclasses, descriptors, varname, body>>

(***************************************************************************)
(* Spec: one class written by the user, with a docstring and optionally a  *)
(* name and a description, then any sequence of compiles, decompiles of    *)
(* the mappings compile returned, and assignments of name.                 *)
(***************************************************************************)
\* assignments in one class body
MaxBody == 2

\* the docstrings and descriptions a user writes: no marker; a marker with
\* nothing, with something that is no metadata record, or with a record
UserTails ==
  {EmptyTail, BadTail(FALSE), BadTail(TRUE),
   MapTail(FALSE, FALSE, "my svc", None), MapTail(FALSE, TRUE, "my svc", None),
   MapTail(TRUE, FALSE, "my svc", None), MapTail(FALSE, FALSE, "Svc", None),
   MapTail(FALSE, FALSE, None, None), MapTail(FALSE, FALSE, "my svc", "Db"),
   MapTail(FALSE, FALSE, "Svc", "Svc"), ValueTail("my svc", None)}

DocTexts == {NoneStr, Plain("Sample")} \cup {Text("Sample", TRUE, t) : t \in UserTails}

\* values of name: strings in which sep_string does not occur
NameValues == {StrVal(Plain("Db")), StrVal(Plain("my svc"))}

DescriptionValues ==
  {StrVal(Plain("Other")), StrVal(Text("Other", TRUE, MapTail(FALSE, FALSE, "my svc", None)))}

RtClass ==
  \E doc \in DocTexts :
    /\ FreeSlots = DefIds
    /\ ClassBegin(1, "Service", "Svc", doc, 0)

RtAssign ==
  /\ Len(body.dict) < MaxBody
  /\ \/ \E v \in NameValues : ClassAssign("name", v)
     \/ \E v \in DescriptionValues : ClassAssign("description", v)

RtCompile == \E d \in DefIds : Compile(d)

RtDecompile == \E s \in DefIds : Decompile(s)

Init == InitWith(AllRegistered)

Next == RtClass \/ RtAssign \/ ClassEnd \/ RtCompile \/ RtDecompile

Spec == Init /\ [][Next]_vars

(***************************************************************************)
(* SpecAttr: the program from its start, with the registry empty: the      *)
(* entity types register, one class is written and ended, attributes are   *)
(* assigned in its body and on the class, and it is compiled.              *)
(***************************************************************************)
\* the kinds' types are defined; the Variable, Action and Descriptor types are
\* not yet
NoneRegistered == [n \in RegistryKeys |-> IF n \in RegistryNames THEN 0 ELSE 1]

\* attribute names: one that is no property, a dunder name, a property
AttrNames == {"foo", "__env__", "name"}

\* attribute values: Variables, an action descriptor, an int
AttrValues == {VarVal(i) : i \in VarIds} \cup {DescVal(1), IntVal(5)}

AtRegister == \E n \in RegistryNames : subclasses[n] = 0 /\ init_subclass(n)

AtClass ==
  \E kind \in {"Service", "Deployment"} :
    /\ FreeSlots = DefIds
    /\ ClassBegin(1, kind, "Svc", NoneStr, 0)

AtAssign ==
  /\ Len(body.dict) < MaxBody
  /\ \E k \in AttrNames, v \in AttrValues : ClassAssign(k, v)

AtSetAttr == \E d \in DefIds, k \in AttrNames, v \in AttrValues : SetAttr(d, k, v)

AtCompile == \E d \in DefIds : Compile(d)

InitAttr == InitWith(NoneRegistered)

NextAttr == AtRegister \/ AtClass \/ AtAssign \/ ClassEnd \/ AtSetAttr \/ AtCompile

SpecAttr == InitAttr /\ [][NextAttr]_vars

(***************************************************************************)
(* SpecWire: a wire mapping arrives (EntityJSONDecoder.object_hook, lines  *)
(* 535-546, hands it to decompile), is decompiled, and the definition is   *)
(* compiled.                                                               *)
(***************************************************************************)
\* what a mapping holds under description, labels and packages
WireDescriptions ==
  {NoneStr, Plain("Other"), Text("Other", TRUE, MapTail(TRUE, FALSE, "my svc", "Svc"))}
WireShapes == {"absent", "list", "str"}

\* the mapping: name, and for a Ref kind; uuid, a key of no kind's display
\* map; description; labels as a list of str or as a str; packages as a list
\* of mappings or as a str
WireMapping(kind, uuid, description, labels, packages) ==
  [k \in {"name"}
         \cup (IF kind = "Ref" THEN {"kind"} ELSE {})
         \cup (IF uuid THEN {"uuid"} ELSE {})
         \cup (IF description # NoneStr THEN {"description"} ELSE {})
         \cup (IF labels # "absent" THEN {"labels"} ELSE {})
         \cup (IF packages # "absent" THEN {"package_local_reference_list"} ELSE {}) |->
     CASE k = "name" -> StrVal(Plain("Db"))
       [] k = "kind" -> StrVal(Plain("app_service"))
       [] k = "uuid" -> StrVal(Plain("abc-123"))
       [] k = "description" -> StrVal(description)
       [] k = "labels" -> IF labels = "list" THEN ListVal(ListId(1, 0, "labels"))
                          ELSE StrVal(Plain("ab"))
       [] OTHER -> IF packages = "list" THEN ListVal(ListId(1, 0, "packages"))
                   ELSE StrVal(Plain("not-a-list"))]

\* the caller receives the mapping m of a definition of kind; ls: its lists
Receive(kind, m, ls) ==
  /\ ~body.open /\ FreeSlots = DefIds /\ ~out[1].has
  /\ out' = [out EXCEPT ![1] = [NoOut EXCEPT !.has = TRUE, !.kind = kind, !.cdict = m]]
  /\ lists' = ls
  /\ last' = Last("receive", 0, "ok", NoDef, None, NoneVal, Resolved(m, ls), NoOut)
  /\ UNCHANGED <<launch, subclasses, descriptors, defs, varname, body>>

WireReceive ==
  \E kind \in {"Deployment", "Ref"}, uuid \in BOOLEAN, description \in WireDescriptions,
     labels \in WireShapes, packages \in WireShapes :
    /\ kind = "Ref" => (labels = "absent" /\ packages = "absent")
    /\ Receive(kind, WireMapping(kind, uuid, description, labels, packages),
               [lists EXCEPT ![ListId(1, 0, "labels")] = <<StrVal(Plain("a"))>>,
                             ![ListId(1, 0, "packages")] = <<DictVal(Plain("Pkg"))>>])

\* a mapping that carries a __kind__ key: a schema name, or the kind as the
\* platform names it
WireTags == {"Deployment", "app_deployment"}

WireReceiveTagged ==
  \E tag \in WireTags, labels \in WireShapes :
    Receive("Deployment",
            DictSet(WireMapping("Deployment", FALSE, NoneStr, labels, "absent"),
                    "__kind__", StrVal(Plain(tag))),
            [lists EXCEPT ![ListId(1, 0, "labels")] = <<StrVal(Plain("a"))>>])

\* a mapping of kind Ref whose key kind, a scalar property validated by the
\* built-in str, holds a value that is no str
WireScalars == {IntVal(5), NoneVal}

WireReceiveScalar ==
  \E v \in WireScalars :
    Receive("Ref", DictSet(WireMapping("Ref", FALSE, NoneStr, "absent", "absent"), "kind", v),
            lists)

WireDecompile == Decompile(1)

WireDecode == \E s \in DefIds : Decode(s)

WireCompile == \E d \in DefIds : Compile(d)

InitWire == InitWith(AllRegistered)

NextWire ==
  \/ WireReceive
  \/ WireReceiveTagged
  \/ WireReceiveScalar
  \/ WireDecompile
  \/ WireDecode
  \/ WireCompile

SpecWire == InitWire /\ [][NextWire]_vars

(***************************************************************************)
(* SpecIso: definitions of one kind, written as classes that subclass      *)
(* Entity or a definition written before; Variables are appended to the    *)
(* variables collection of a definition and to the one of a compile        *)
(* result; the definitions are compiled.                                   *)
(***************************************************************************)
\* members appended to one list
MaxItems == 1

\* the collection of definition d under k: the elements of getattr(cls, k)
Collection(ds, ls, d, k) ==
  IF d \in DefIds /\ ds[d].live /\ HasAttr(ds, d, k) /\ ClassAttr(ds, d, k).t = "list"
    THEN ls[ClassAttr(ds, d, k).id]
    ELSE <<>>

\* cls.<k>.append(v), with cls the definition in slot d: the list that
\* __new__ attached (lines 163-167), or the one the class inherits
ListAppend(d, k, v) ==
  /\ ~body.open /\ defs[d].live
  /\ HasAttr(defs, d, k) /\ ClassAttr(defs, d, k).t = "list"
  /\ Len(lists[ClassAttr(defs, d, k).id]) < MaxItems
  /\ lists' = [lists EXCEPT ![ClassAttr(defs, d, k).id] = Append(@, v)]
  /\ defs' = [e \in DefIds |-> [defs[e] EXCEPT !.origin = NoDict, !.prev = NoDict]]
  /\ last' = Last("append", d, "ok", defs[d], k, v,
                  [e \in DefIds |-> Collection(defs, lists, e, k)], NoOut)
  /\ UNCHANGED <<launch, subclasses, descriptors, varname, body, out>>

\* cdict[wk].append(v), with cdict the compile result held for slot d: the
\* list update_attrs made (lines 233-235)
ResultAppend(d, wk, v) ==
  /\ ~body.open /\ out[d].has /\ out[d].compiled
  /\ wk \in DOMAIN out[d].cdict /\ out[d].cdict[wk].t = "list"
  /\ Len(lists[out[d].cdict[wk].id]) < MaxItems
  /\ lists' = [lists EXCEPT ![out[d].cdict[wk].id] = Append(@, v)]
  /\ out' = [out EXCEPT ![d].virgin = FALSE]
  /\ last' = Last("rappend", d, "ok", defs[d], wk, v,
                  [e \in DefIds |-> Collection(defs, lists, e, "variables")], NoOut)
  /\ UNCHANGED <<launch, subclasses, descriptors, defs, varname, body>>

IsoClass ==
  \E name \in Identifiers, base \in {0} \cup DefIds :
    ClassBegin(LowestFree, "Service", name, NoneStr, base)

IsoAppend == \E d \in DefIds, i \in VarIds : ListAppend(d, "variables", VarVal(i))

IsoResultAppend == \E d \in DefIds, i \in VarIds : ResultAppend(d, "variable_list", VarVal(i))

IsoCompile == \E d \in DefIds : Compile(d)

InitIso == InitWith(AllRegistered)

NextIso ==
  \/ IsoClass
  \/ Len(body.dict) < 1 /\ ClassAssign("name", StrVal(Plain("my svc")))
  \/ ClassEnd
  \/ IsoAppend
  \/ IsoResultAppend
  \/ IsoCompile

SpecIso == InitIso /\ [][NextIso]_vars

(***************************************************************************)
(* SpecReg: the types of the kinds are defined, also anew under a schema   *)
(* name that has a type; a definition of kind Service is written, assigned *)
(* to, compiled and decompiled.  At the start the type of Service is not   *)
(* defined yet, and the one of Substrate never is.                         *)
(***************************************************************************)
\* the schema names of the types defined
RegNames == {"Service", None, NoSchemaName}

RegAttrNames == {"foo", "__validator_dict__"}

RegAttrValues == {VarVal(1), DictVal(Plain("x"))}

RegClass ==
  /\ FreeSlots = DefIds /\ subclasses["Service"] # 0
  /\ ClassBegin(1, "Service", "Svc", NoneStr, 0)

RegAssign ==
  /\ Len(body.dict) < MaxBody
  /\ \E k \in RegAttrNames, v \in RegAttrValues : ClassAssign(k, v)

InitReg == InitWith([n \in RegistryKeys |-> IF n \in {"Service", "Substrate"} THEN 0 ELSE 1])

NextReg ==
  \/ \E n \in RegNames : init_subclass(n)
  \/ RegClass
  \/ RegAssign
  \/ ClassEnd
  \/ \E k \in RegAttrNames, v \in RegAttrValues : SetAttr(1, k, v)
  \/ Compile(1)
  \/ Decompile(1)

SpecReg == InitReg /\ [][NextReg]_vars

(***************************************************************************)
(* SpecSub: with every type registered, one class of a kind that declares  *)
(* variables, actions and a property validated by an object validator is   *)
(* written; Variables, descriptors and a mapping are assigned under that   *)
(* property and under names that are no property, in the body and on the   *)
(* class, and the class is compiled.                                       *)
(***************************************************************************)
\* attribute names: the property of the object validator, two that are none
SubNames == {"readiness_probe", "foo", "bar"}

\* attribute values: a Variable, an action descriptor, a descriptor-typed
\* object without __exception__, one that carries an __exception__, a mapping
SubValues == {VarVal(1), DescVal(1), DescVal(2), DescVal(3), DictVal(Plain("x"))}

NextSub ==
  \/ FreeSlots = DefIds /\ ClassBegin(1, "Substrate", "Sub", NoneStr, 0)
  \/ Len(body.dict) < MaxBody /\ \E k \in SubNames, v \in SubValues : ClassAssign(k, v)
  \/ ClassEnd
  \/ \E k \in SubNames, v \in SubValues : SetAttr(1, k, v)
  \/ Compile(1)

SpecSub == Init /\ [][NextSub]_vars

(***************************************************************************)
(* SpecGate: the program from its start, with the registry empty: the      *)
(* entity types register while one class is written; a Variable, an int    *)
(* and a str are assigned under a property and under a name that is none,  *)
(* in the body and on the class.                                           *)
(***************************************************************************)
NextGate ==
  \/ AtRegister
  \/ FreeSlots = DefIds /\ ClassBegin(1, "Service", "Svc", NoneStr, 0)
  \/ /\ Len(body.dict) < MaxBody
     /\ \E k \in {"foo", "name"}, v \in {VarVal(1), IntVal(5), StrVal(Plain("Db"))} :
          ClassAssign(k, v)
  \/ ClassEnd
  \/ \E k \in {"foo", "name"}, v \in {VarVal(1), IntVal(5), StrVal(Plain("Db"))} :
       SetAttr(1, k, v)

SpecGate == InitAttr /\ [][NextGate]_vars

(***************************************************************************)
(* Properties of the metadata round trip, checked under Spec.              *)
(***************************************************************************)
\* the last step compiled a definition; last.arg is the mapping of line 315
Compiled == last.op = "compile" /\ last.err = "ok"

\* the last step decompiled the mapping last.src.cdict into slot last.d
Decompiled == last.op = "decompile" /\ last.err = "ok"

\* the description a compile or a decompile starts from holds a metadata
\* record: the marker, and a tail that loads
CarriesRecord(cdict) ==
  /\ "description" \in DOMAIN cdict
  /\ cdict["description"].s.marker
  /\ yaml_load(cdict["description"].s.tail).ok

\* C1: compiling the definition that decompile returned for a compile result
\* gives a mapping equal, key by key, to that compile result (for the results
\* whose description holds no marker, or the marker and a record that loads).
C1_RoundTrip ==
  (/\ Compiled
   /\ last.pre.origin # NoDict
   /\ LET description == last.pre.origin["description"].items[1].s
      IN  ~description.marker \/ yaml_load(description.tail).ok)
  => out[last.d].snap = last.pre.origin

\* C2: when the compiled description carries a record whose display_name is
\* non-empty and differs from the compiled name, the wire name and the
\* definition's identifier become display_name, and the record written back
\* carries as dsl_name the identifier the definition had before this compile.
C2_DisplayNameOverride ==
  (/\ Compiled
   /\ CarriesRecord(last.arg)
   /\ yaml_load(last.arg["description"].s.tail).display # None
   /\ Plain(yaml_load(last.arg["description"].s.tail).display) # last.arg["name"].s)
  => LET display == yaml_load(last.arg["description"].s.tail).display
     IN  /\ out[last.d].cdict["name"] = StrVal(Plain(display))
         /\ defs[last.d].name = display
         /\ out[last.d].cdict["description"].s.tail.dsl = last.pre.name

\* C3: decompiling a mapping whose description carries a record with a
\* non-empty dsl_name gives a definition whose identifier is the coerced
\* dsl_name; and decompiling the result of a compile that renamed the
\* definition gives back the identifier it had before that compile.
C3_IdentifierRecovery ==
  /\ (Decompiled /\ CarriesRecord(last.src.cdict)
        /\ yaml_load(last.src.cdict["description"].s.tail).dsl # None)
     => defs[last.d].name =
          get_valid_identifier(yaml_load(last.src.cdict["description"].s.tail).dsl)
  /\ (Decompiled /\ last.src.compiled /\ last.src.virgin /\ last.src.renamed)
     => defs[last.d].name = last.src.ident0

\* C9: two compiles of a definition in succession, with no assignment in
\* between, return equal mappings.
C9_CompileDeterministic ==
  (Compiled /\ last.pre.prev # NoDict) => out[last.d].snap = last.pre.prev

Records == {yaml_load(t) : t \in {u \in UserTails : yaml_load(u).ok}}

OwnAttr(k) ==
  IF HasKey(last.pre.dict, k) THEN Get(last.pre.dict, k) ELSE StrVal(EmptyStr)

\* C23: before the metadata is processed, the name compile emits is the
\* definition's identifier when its name is the empty string, and its name
\* otherwise; the description it emits is the documentation text (the empty
\* string when there is none) when its description is the empty string, and
\* its description otherwise.
C23_NameDescriptionDefaults ==
  (Compiled /\ {"name", "description"} \subseteq VdictKeys(last.pre.kind)) =>
    /\ last.arg["name"] = (IF OwnAttr("name") = StrVal(EmptyStr)
                             THEN StrVal(Plain(last.pre.name))
                             ELSE OwnAttr("name"))
    /\ last.arg["description"] =
         (IF OwnAttr("description") # StrVal(EmptyStr) THEN OwnAttr("description")
          ELSE IF last.pre.doc \in {NoneStr, EmptyStr} THEN StrVal(EmptyStr)
          ELSE StrVal(last.pre.doc))

\* a definition with a name set by the user, no description and a
\* documentation text was compiled: the name and the text were emitted
C23_Witness ==
  /\ Compiled
  /\ OwnAttr("name") # StrVal(EmptyStr) /\ last.arg["name"] = OwnAttr("name")
  /\ last.arg["name"] # StrVal(Plain(last.pre.name))
  /\ OwnAttr("description") = StrVal(EmptyStr)
  /\ last.pre.doc # NoneStr /\ last.arg["description"] = StrVal(last.pre.doc)

\* C26: for a definition of a kind declaring name and description, get_name
\* gives the name that compile emits for it, called before the compile and
\* called after it.
C26_ReferenceName ==
  (Compiled /\ {"name", "description"} \subseteq VdictKeys(last.pre.kind)) =>
    /\ get_name([defs EXCEPT ![last.d] = last.pre], last.d)
         = out[last.d].cdict["name"].s.pre
    /\ get_name(defs, last.d) = out[last.d].cdict["name"].s.pre

\* the description a compile or a decompile starts from holds the marker and
\* a tail that does not load as a metadata record
CarriesBadTail(cdict) ==
  /\ "description" \in DOMAIN cdict
  /\ cdict["description"].s.marker
  /\ ~yaml_load(cdict["description"].s.tail).ok

\* C17: when the description compiled (name and description defaults filled
\* in) holds the marker and a tail that does not load as a metadata record,
\* compile returns a mapping, and its description is that description as it
\* stood; the name and the identifier are left alone too.
C17_CompileToleratesBadMetadata ==
  (last.op = "compile" /\ CarriesBadTail(last.arg))
  => /\ last.err = "ok" /\ out[last.d].has /\ out[last.d].virgin
     /\ out[last.d].cdict["description"] = last.arg["description"]
     /\ out[last.d].cdict = last.arg
     /\ defs[last.d].name = last.pre.name

\* a description whose tail is no record, and holds text after the marker,
\* was compiled and emitted as it stood
C17_Witness ==
  /\ Compiled /\ CarriesBadTail(last.arg)
  /\ last.arg["description"].s.tail # EmptyTail
  /\ out[last.d].cdict["description"] = last.arg["description"]

\* C18: when the description of the mapping decompiled holds the marker and
\* a tail that does not load as a metadata record, decompile returns a
\* definition whose documentation text is that description, the text after
\* the marker included.
C18_DecompileToleratesBadMetadata ==
  (last.op = "decompile" /\ CarriesBadTail(last.src.cdict))
  => /\ last.err = "ok" /\ defs[last.d].live
     /\ defs[last.d].doc = last.src.cdict["description"].s

\* C15: when the description of the mapping decompiled carries a record with
\* a dsl_name, equal to the wire name or not, the record in the documentation
\* text of the new definition has no dsl_name.
C15_RecoveryKeyRemoved ==
  (/\ Decompiled
   /\ CarriesRecord(last.src.cdict)
   /\ yaml_load(last.src.cdict["description"].s.tail).dsl # None)
  => /\ defs[last.d].doc.marker
     /\ yaml_load(defs[last.d].doc.tail).ok
     /\ yaml_load(defs[last.d].doc.tail).dsl = None

(***************************************************************************)
(* Properties of attribute assignment and promotion, checked under         *)
(* SpecAttr.                                                               *)
(***************************************************************************)
\* the last step assigned last.v under last.k, in a class body or on a class;
\* last.pre holds the kind and the attributes before
Assigned == last.op \in {"setitem", "setattr"}

\* the name assigned is no dunder name and no property of the kind, and the
\* value is neither a Variable on a kind declaring variables nor
\* descriptor-typed on a kind declaring actions
UnknownAssigned ==
  /\ Assigned
  /\ ~IsDunder(last.k)
  /\ last.k \notin VdictKeys(last.pre.kind)
  /\ ~(last.v.t = "Variable" /\ "variables" \in VdictKeys(last.pre.kind))
  /\ ~(last.v.t = "Descriptor" /\ "actions" \in VdictKeys(last.pre.kind))

\* the assignment left nothing: the class statement was abandoned, or the
\* class has the attributes it had
NotStored ==
  IF last.op = "setitem"
    THEN ~body.open /\ ~defs[last.d].live
    ELSE defs[last.d].dict = last.pre.dict

\* C4, as claimed: such an assignment always raises the unknown-attribute
\* error, and the attribute is not stored.
C4_UnknownAttributeRejected ==
  UnknownAssigned => (last.err = "UnknownAttribute" /\ NotStored)

\* C4, amended: such an assignment raises the unknown-attribute error once the
\* Variable and Descriptor types are registered, and the error of the type
\* that is not registered before; the attribute is never stored.
C4_UnknownAttributeRejectedOnceRegistered ==
  UnknownAssigned =>
    /\ NotStored
    /\ last.err = (IF subclasses["Variable"] = 0 THEN "VariableTypeNotDefined"
                   ELSE IF subclasses["Descriptor"] = 0 THEN "DescriptorTypeNotDefined"
                   ELSE "UnknownAttribute")

\* an int was assigned under foo on a class that exists, with every type
\* registered, and the unknown-attribute error was raised
C4_Witness ==
  /\ UnknownAssigned /\ last.op = "setattr" /\ last.v.t = "int"
  /\ RegistryComplete(subclasses)
  /\ last.err = "UnknownAttribute"

\* C5: after compile, every Variable that the definition carried under a name
\* f that is no property is a member of the variables array with name f, and
\* f is no key of the mapping.
C5_CollectionPromotion ==
  (Compiled /\ "variables" \in VdictKeys(last.pre.kind)) =>
    \A i \in 1..Len(last.pre.dict) :
      LET e == last.pre.dict[i]
          members == lists[out[last.d].cdict["variable_list"].id]
      IN  (e.k \notin VdictKeys(last.pre.kind) /\ e.v.t = "Variable") =>
            /\ \E j \in 1..Len(members) : members[j] = e.v /\ varname[e.v.id] = e.k
            /\ e.k \notin DOMAIN out[last.d].cdict

\* the attribute was stored as assigned: in the class body, or on the class
Stored ==
  IF last.op = "setitem"
    THEN body.open /\ HasKey(body.dict, last.k) /\ Get(body.dict, last.k) = last.v
    ELSE HasKey(defs[last.d].dict, last.k) /\ Get(defs[last.d].dict, last.k) = last.v

(***************************************************************************)
(* Properties of the registry lookups of validation, checked under         *)
(* SpecGate.                                                               *)
(***************************************************************************)
\* the registries: which names have a type
Registries == [RegistryKeys -> {0, 1}]

\* C22: assigning under a name that is no dunder name and no property, while
\* the Variable type or the Descriptor type is not registered, raises the
\* error of the missing type whatever the value, and stores nothing; and
\* assigning under a property a value its validator accepts succeeds with
\* the same outcome in every registry: the registry is not consulted.
C22_MissingRegistryKind ==
  /\ (/\ Assigned /\ ~IsDunder(last.k)
      /\ last.k \notin VdictKeys(last.pre.kind)
      /\ (subclasses["Variable"] = 0 \/ subclasses["Descriptor"] = 0))
     => /\ last.err = (IF subclasses["Variable"] = 0 THEN "VariableTypeNotDefined"
                       ELSE "DescriptorTypeNotDefined")
        /\ NotStored
  /\ (/\ Assigned /\ ~IsDunder(last.k)
      /\ last.k \in VdictKeys(last.pre.kind)
      /\ Accepts(Validator(last.pre.kind, last.k).vt,
                 Validator(last.pre.kind, last.k).is_array, last.v, lists))
     => /\ last.err = "ok" /\ Stored
        /\ \A reg \in Registries :
             _validate(last.pre.kind, last.k, last.v, reg, varname, lists)
               = Return(last.v, varname)

\* a Variable was assigned under foo on a kind declaring variables, with the
\* Variable type registered and the Descriptor type not, and was rejected
\* with the error of the missing type
C22_Witness ==
  /\ Assigned /\ last.k = "foo" /\ last.v.t = "Variable"
  /\ "variables" \in VdictKeys(last.pre.kind)
  /\ subclasses["Variable"] # 0 /\ subclasses["Descriptor"] = 0
  /\ last.err = "DescriptorTypeNotDefined" /\ NotStored

(***************************************************************************)
(* Properties of declared properties and of the promotion, checked under   *)
(* SpecSub.                                                                *)
(***************************************************************************)

\* C19: assigning under a property whose validator is an object validator
\* has the outcome of that validator on the value: stored when it accepts,
\* and when it rejects, its TypeError, nothing stored, and a Variable not
\* renamed to the property.
C19_DeclaredValidated ==
  (/\ Assigned
   /\ ~IsDunder(last.k)
   /\ last.k \in VdictKeys(last.pre.kind)
   /\ IsObjectValidator(Validator(last.pre.kind, last.k).vt))
  => IF Accepts(Validator(last.pre.kind, last.k).vt,
                Validator(last.pre.kind, last.k).is_array, last.v, lists)
       THEN last.err = "ok" /\ Stored
       ELSE /\ last.err = "ValidatorTypeError"
            /\ NotStored
            /\ last.v.t = "Variable" => varname[last.v.id] # last.k

\* how many times v occurs in the sequence members
Occurrences(members, v) == Cardinality({j \in 1..Len(members) : members[j] = v})

\* the attributes the definition compiled carried under names that are no
\* property, as compile reads them, with the value v
Carried(v) ==
  {i \in 1..Len(last.pre.dict) :
     /\ last.pre.dict[i].k \notin VdictKeys(last.pre.kind)
     /\ GetAttr(last.pre.dict[i].v) = v}

\* C20: after a compile of a kind declaring variables and actions, every key
\* of the mapping is the wire key of a property; every attribute that was
\* removed was appended once to the list of its capability (Actions to
\* actions, Variables to variables); and the two lists hold nothing that was
\* appended and is neither a Variable nor an Action.
C20_PromotionInvariant ==
  (Compiled /\ {"variables", "actions"} \subseteq VdictKeys(last.pre.kind)) =>
    LET cdict == out[last.d].cdict
        variables == lists[cdict["variable_list"].id]
        actions == lists[cdict["action_list"].id]
    IN  /\ \A wk \in DOMAIN cdict :
             \E p \in VdictKeys(last.pre.kind) : DisplayKey(last.pre.kind, p) = wk
        /\ \A i \in 1..Len(last.pre.dict) :
             LET e == last.pre.dict[i]
                 v == GetAttr(e.v)
             IN  e.k \notin VdictKeys(last.pre.kind) =>
                   /\ v.t = "Variable" => Occurrences(variables, v) = Cardinality(Carried(v))
                   /\ v.t = "Action" => Occurrences(actions, v) = Cardinality(Carried(v))
        /\ \A j \in 1..Len(variables) : variables[j].t = "Variable"
        /\ \A j \in 1..Len(actions) : actions[j].t = "Action"

\* the values, as compile reads them, of the attributes that the definition
\* compiled carried under names that are no property
Undeclared ==
  {GetAttr(last.pre.dict[i].v) :
     i \in {j \in 1..Len(last.pre.dict) : last.pre.dict[j].k \notin VdictKeys(last.pre.kind)}}

\* C21: a compile of a definition that carries, under a name that is no
\* property, a value that is neither a Variable nor an Action nor
\* descriptor-typed raises the unhandled-field error; when it carries a
\* descriptor-typed value with an __exception__, it raises that exception;
\* no mapping is returned.
C21_Unclassifiable ==
  (last.op = "compile" /\ {"variables", "actions"} \subseteq VdictKeys(last.pre.kind)) =>
    /\ (\E v \in Undeclared : v.t \notin {"Variable", "Action", "Descriptor"})
         => last.err = "UnhandledField"
    /\ (\E v \in Undeclared : v.t = "Descriptor" /\ DescKind(v.id) = "exc")
         => last.err = "CarriedException"

\* the lists that are attributes of a definition
AttributeLists ==
  {id \in ListIds :
     \E e \in DefIds : \E i \in 1..Len(defs[e].dict) : defs[e].dict[i].v = ListVal(id)}

\* C24: a compile, successful or not, leaves every definition's attributes,
\* documentation text, kind and bases as they are, and the identifier of
\* every definition but the one compiled; it leaves the lists that are
\* attributes of a definition, the names of the Variables, the kinds'
\* tables and the registry as they are.
C24_CompileFrame ==
  [][last'.op = "compile" =>
       /\ \A e \in DefIds :
            /\ defs'[e].dict = defs[e].dict
            /\ defs'[e].doc = defs[e].doc
            /\ defs'[e].live = defs[e].live
            /\ defs'[e].kind = defs[e].kind
            /\ defs'[e].base = defs[e].base
            /\ e # last'.d => defs'[e].name = defs[e].name
       /\ \A id \in AttributeLists : lists'[id] = lists[id]
       /\ varname' = varname
       /\ descriptors' = descriptors
       /\ subclasses' = subclasses
       /\ body' = body]_vars

\* a compile promoted a Variable into the variables of the mapping, and the
\* list that the definition holds under variables has no member
C24_Witness ==
  /\ Compiled
  /\ \E i \in 1..Len(last.pre.dict) :
       /\ last.pre.dict[i].k \notin VdictKeys(last.pre.kind)
       /\ last.pre.dict[i].v.t = "Variable"
  /\ Len(lists[out[last.d].cdict["variable_list"].id]) > 0
  /\ defs[last.d].dict = last.pre.dict
  /\ HasKey(defs[last.d].dict, "variables")
  /\ lists[Get(defs[last.d].dict, "variables").id] = <<>>

(***************************************************************************)
(* Properties of decompile on mappings received, checked under SpecWire.   *)
(***************************************************************************)
\* the last step was a call of decompile, on the mapping last.src.cdict
DecompileCalled == last.op = "decompile"

\* the mapping m without the keys in ks
Without(m, ks) == [k \in (DOMAIN m) \ ks |-> m[k]]

\* the keys of the mapping decompiled that have no inverse entry in the
\* display map of its kind
UnknownKeys ==
  {k \in DOMAIN last.src.cdict : InverseDisplay(last.src.kind, k) = None}

\* decompile of the mapping decompiled without the keys ks gives the result
\* the last step gave: the same error, or the same definition and lists
SameWithout(ks) ==
  LET r == decompile(last.src.kind, Without(last.src.cdict, ks), last.d,
                     subclasses, varname, lists)
  IN  /\ last.err = r.err
      /\ r.err = "ok" => ([defs[last.d] EXCEPT !.origin = NoDict] = r.def /\ lists = r.lists)

\* C6, as claimed: the keys with no inverse entry raise no error and leave no
\* trace: the definition is the one the mapping without them gives.
C6_UnknownKeysDropped ==
  DecompileCalled => (last.err # "KeyError" /\ SameWithout(UnknownKeys))

\* C6, amended: so it is for the keys with no inverse entry other than name
\* and description, which decompile reads before it looks at the display map.
C6_UnknownKeysDroppedButNameDescription ==
  DecompileCalled =>
    (last.err # "KeyError" /\ SameWithout(UnknownKeys \ {"name", "description"}))

\* a mapping with the key uuid was decompiled into a definition that has no
\* such attribute
C6_Witness ==
  /\ DecompileCalled /\ last.err = "ok"
  /\ "uuid" \in UnknownKeys
  /\ defs[last.d].live /\ ~HasKey(defs[last.d].dict, "uuid")

\* C7: when the value of an array-typed property is no list, decompile raises
\* the type-mismatch error and returns no definition.
C7_ArrayTypeMismatch ==
  (/\ DecompileCalled
   /\ \E p \in VdictKeys(last.src.kind) :
        /\ Validator(last.src.kind, p).is_array
        /\ DisplayKey(last.src.kind, p) \in DOMAIN last.src.cdict
        /\ last.src.cdict[DisplayKey(last.src.kind, p)].t # "list")
  => (last.err = "TypeMismatch" /\ ~defs[last.d].live)

\* C16: when the value of a property validated by a built-in type (one
\* without decompile) is no instance of that type, or for an array property
\* one of its elements is not, decompile raises the type-mismatch error and
\* returns no definition: it converts no value of another type.
C16_BuiltinTypeCheck ==
  (/\ DecompileCalled
   /\ \E p \in Range(MappedProps(last.src.kind, last.src.cdict)) :
        LET val == Validator(last.src.kind, p)
            v == last.src.cdict[DisplayKey(last.src.kind, p)]
        IN  /\ ~HasDecompile(val.vt)
            /\ IF val.is_array
                 THEN /\ v.t = "list"
                      /\ \E i \in 1..Len(last.arg[DisplayKey(last.src.kind, p)].items) :
                           ~IsInstance(last.arg[DisplayKey(last.src.kind, p)].items[i], val.vt)
                 ELSE ~IsInstance(v, val.vt))
  => (last.err = "TypeMismatch" /\ ~defs[last.d].live)

\* C25: a call of decompile, successful or not, leaves every mapping the
\* caller holds, the one passed in included, with the keys and values it
\* had, and the lists in it with the elements they had.
C25_DecompilePure ==
  [][last'.op = "decompile" =>
       \A s \in DefIds :
         /\ out'[s].cdict = out[s].cdict
         /\ \A k \in DOMAIN out[s].cdict :
              out[s].cdict[k].t = "list" => lists'[out[s].cdict[k].id] = lists[out[s].cdict[k].id]]_vars

\* the last step handed the mapping last.src.cdict to object_hook, which
\* returned last.k
Decoded == last.op = "decode"

\* C11: every mapping compile returns carries the key __kind__, and
\* object_hook, handed a mapping compile returned, returns an entity
\* definition.
C11_KindTag ==
  /\ Compiled => "__kind__" \in DOMAIN out[last.d].cdict
  /\ (Decoded /\ last.src.compiled /\ last.src.virgin) =>
       (last.k = "entity" /\ defs[last.d].live)

(***************************************************************************)
(* Properties of the registry and of the kinds' tables, checked under      *)
(* SpecReg.                                                                *)
(***************************************************************************)
\* the step defined a type: last'.k is its schema name, last'.v its number
Registers == last'.op = "register" /\ last'.err = "ok"

\* C12: the registry maps a schema name to one type; the definition of a type
\* enters it under its schema name, in place of the type that was there, and
\* changes no other entry; no other step changes the registry, so that the
\* lookup of a name no type was defined with gives None.
C12_TypeRegistry ==
  [][IF Registers
       THEN /\ Lookup(subclasses', last'.k) = last'.v.id
            /\ last'.v.id # Lookup(subclasses, last'.k)
            /\ \A n \in (RegistryKeys \cup {NoSchemaName}) \ {last'.k} :
                 Lookup(subclasses', n) = Lookup(subclasses, n)
       ELSE \A n \in RegistryKeys \cup {NoSchemaName} :
              Lookup(subclasses', n) = Lookup(subclasses, n)]_vars

\* a second type was defined under a schema name and is the one registered,
\* while no type was defined under Substrate, whose lookup gives None
C12_Witness ==
  /\ last.op = "register" /\ last.err = "ok"
  /\ last.arg[last.k] # 0
  /\ subclasses[last.k] = last.v.id
  /\ Lookup(subclasses, "Substrate") = 0

\* C13: the tables of a kind whose type is defined are changed by no step.
C13_DescriptorImmutable ==
  [][\A n \in SchemaNames :
       descriptors[n] # NoDescriptor => descriptors'[n] = descriptors[n]]_vars

\* a definition of kind Service carries an attribute named as the validator
\* table and was compiled, and the kind's tables are those of its schema
C13_Witness ==
  /\ Compiled /\ last.pre.kind = "Service"
  /\ HasKey(last.pre.dict, "__validator_dict__")
  /\ descriptors["Service"] = get_schema_details("Service")

(***************************************************************************)
(* Properties of the collections, checked under SpecIso.                   *)
(***************************************************************************)
\* C8: a member appended to the variables collection of one definition is not
\* observable in another definition, the definitions that subclass it set
\* aside (last.arg holds the collections before the append); a member
\* appended to the collection of a compile result is observable in no
\* definition; and a compile result holds the members of the definition
\* compiled.
C8_DefaultIsolation ==
  /\ last.op = "append" =>
       \A e \in DefIds \ {last.d} :
         ~IsSubclass(defs, e, last.d) =>
           Collection(defs, lists, e, last.k) = last.arg[e]
  /\ last.op = "rappend" =>
       \A e \in DefIds : Collection(defs, lists, e, "variables") = last.arg[e]
  /\ (Compiled /\ "variable_list" \in DOMAIN out[last.d].cdict) =>
       lists[out[last.d].cdict["variable_list"].id]
         = Collection(defs, lists, last.d, "variables")


\* ---------------------------------------------------------------------------
\* cli/bps.py: launching a blueprint and polling the launch
\* ---------------------------------------------------------------------------

\* a launch ends: by returning, by sys.exit(-1) or by an exception
EndLaunch(l, how, exc) ==
  [l EXCEPT !.pc = "done", !.end = how, !.exc = exc]

\* the error codes an API call reports in err (None: no error)
ErrCodes == {None, "500", "503"}

\* the states a poll response reports; MissingState: the response has none
MissingState == "<no state>"

AppStates == {"success", "failure", "running", MissingState}

\* poll_launch_status waits at most five minutes
maxWait == 300

\* launch_blueprint_simple is called (again, once the last call has ended):
\* with an app name it starts with the search for applications of that name
launch_blueprint_simple(app_name, blueprint) ==
  /\ launch.pc \in {"idle", "done"}
  /\ launch' = [NoLaunch EXCEPT !.app_name = app_name, !.blueprint = blueprint,
                                !.pc = IF app_name THEN "list" ELSE "blueprint"]
  /\ UNCHANGED <<subclasses, descriptors, defs, varname, lists, body, out, last>>

\* client.application.list answers: an error raises, a match exits
application_list(err, total_matches) ==
  /\ launch.pc = "list"
  /\ launch' = IF err # None
                 THEN EndLaunch(launch, "raise", err)
                 ELSE LET l == [launch EXCEPT !.total_matches = total_matches] IN
                        IF total_matches # 0
                          THEN EndLaunch(l, "exit", None)
                          ELSE [l EXCEPT !.pc = "blueprint"]
  /\ UNCHANGED <<subclasses, descriptors, defs, varname, lists, body, out, last>>

\* get_blueprint without the exit on a state other than ACTIVE
get_blueprint_any_state(err, entities, bp_status) ==
  /\ launch.pc = "blueprint"
  /\ launch' = IF ~launch.blueprint /\ err # None
                 THEN EndLaunch(launch, "raise", err)
                 ELSE IF ~launch.blueprint /\ entities # 1
                 THEN EndLaunch(launch, "raise", None)
                 ELSE [launch EXCEPT !.bp_status = bp_status, !.pc = "editables"]
  /\ UNCHANGED <<subclasses, descriptors, defs, varname, lists, body, out, last>>

\* the blueprint is fetched by name unless the caller passed it (get_blueprint
\* raises on an error and unless exactly one blueprint has the name), then its
\* state is read: anything but ACTIVE exits
get_blueprint(err, entities, bp_status) ==
  /\ launch.pc = "blueprint"
  /\ launch' = IF ~launch.blueprint /\ err # None
                 THEN EndLaunch(launch, "raise", err)
                 ELSE IF ~launch.blueprint /\ entities # 1
                 THEN EndLaunch(launch, "raise", None)
                 ELSE LET l == [launch EXCEPT !.bp_status = bp_status] IN
                        IF bp_status # "ACTIVE"
                          THEN EndLaunch(l, "exit", None)
                          ELSE [l EXCEPT !.pc = "editables"]
  /\ UNCHANGED <<subclasses, descriptors, defs, varname, lists, body, out, last>>

\* the runtime editables are fetched (an error raises), the profile is chosen
\* (none of that name raises) and, when there are editables to patch, the
\* blueprint is read (an error exits)
get_blueprint_runtime_editables(err, profile, patch, read_err) ==
  /\ launch.pc = "editables"
  /\ launch' = IF err # None
                 THEN EndLaunch(launch, "raise", err)
                 ELSE IF ~profile
                 THEN EndLaunch(launch, "raise", None)
                 ELSE IF patch /\ read_err # None
                 THEN EndLaunch(launch, "exit", None)
                 ELSE [launch EXCEPT !.pc = "launch"]
  /\ UNCHANGED <<subclasses, descriptors, defs, varname, lists, body, out, last>>

\* client.blueprint.launch issues the launch request: an error raises,
\* otherwise the launch is queued and poll_launch_status is called
blueprint_launch(err) ==
  /\ launch.pc = "launch"
  /\ launch' = LET l == [launch EXCEPT !.requests = @ + 1] IN
                 IF err # None
                   THEN EndLaunch(l, "raise", err)
                   ELSE [l EXCEPT !.queued = TRUE, !.pc = "poll"]
  /\ UNCHANGED <<subclasses, descriptors, defs, varname, lists, body, out, last>>

\* poll_launch_status polling again after an error
poll_launch_status_again(app_state, err) ==
  /\ launch.pc = "poll"
  /\ launch.count < maxWait
  /\ launch' =
       LET l == [launch EXCEPT !.polls = @ + 1, !.app_state = app_state, !.err = err] IN
         IF app_state = MissingState
           THEN EndLaunch(l, "raise", None)
         ELSE IF app_state \in {"success", "failure"}
           THEN EndLaunch(l, "return", None)
         ELSE IF l.count + 10 < maxWait
           THEN [l EXCEPT !.count = @ + 10]
           ELSE EndLaunch([l EXCEPT !.count = @ + 10], "return", None)
  /\ UNCHANGED <<subclasses, descriptors, defs, varname, lists, body, out, last>>

\* one turn of the loop of poll_launch_status, up to the next test of the
\* loop condition: the poll, the state it reports, the error, the wait
poll_launch_status(app_state, err) ==
  /\ launch.pc = "poll"
  /\ launch.count < maxWait
  /\ launch' =
       LET l == [launch EXCEPT !.polls = @ + 1, !.app_state = app_state, !.err = err] IN
         IF app_state = MissingState
           THEN EndLaunch(l, "raise", None)
         ELSE IF app_state \in {"success", "failure"}
           THEN EndLaunch(l, "return", None)
         ELSE IF err # None
           THEN EndLaunch(l, "raise", err)
         ELSE IF l.count + 10 < maxWait
           THEN [l EXCEPT !.count = @ + 10]
           ELSE EndLaunch([l EXCEPT !.count = @ + 10], "return", None)
  /\ UNCHANGED <<subclasses, descriptors, defs, varname, lists, body, out, last>>

NextLaunch ==
  \/ \E app_name \in BOOLEAN, blueprint \in BOOLEAN :
       launch_blueprint_simple(app_name, blueprint)
  \/ \E err \in ErrCodes, total_matches \in {0, 1} : application_list(err, total_matches)
  \/ \E err \in ErrCodes, entities \in {0, 1, 2}, bp_status \in {"ACTIVE", "DRAFT"} :
       get_blueprint(err, entities, bp_status)
  \/ \E err \in ErrCodes, profile \in BOOLEAN, patch \in BOOLEAN, read_err \in ErrCodes :
       get_blueprint_runtime_editables(err, profile, patch, read_err)
  \/ \E err \in ErrCodes : blueprint_launch(err)
  \/ \E app_state \in AppStates, err \in ErrCodes : poll_launch_status(app_state, err)

SpecLaunch == Init /\ [][NextLaunch]_vars


\* ---------------------------------------------------------------------------
\* Properties of SpecLaunch
\* ---------------------------------------------------------------------------

\* the launch preconditions were seen: the application list answered with zero
\* matches when an app name was given, and the blueprint's state was ACTIVE
PreconditionsSeen ==
  /\ launch.app_name => launch.total_matches = 0
  /\ launch.bp_status = "ACTIVE"

\* C27: launch_blueprint_simple issues the launch request only after the
\* application list query succeeded with zero matches (when an app name is
\* given) and the blueprint's state was observed to be ACTIVE; in every other
\* case it ends without a launch request; polling starts only after a launch
\* request returned without error.
C27_LaunchPrecondition ==
  /\ launch.requests > 0 => PreconditionsSeen
  /\ (launch.pc = "done" /\ ~PreconditionsSeen) => launch.requests = 0
  /\ (launch.pc = "poll" \/ launch.polls > 0) => (launch.queued /\ launch.requests = 1)
  /\ launch.queued => launch.requests = 1

\* a launch with an app name was requested, queued and polled
C27_Witness ==
  /\ launch.app_name
  /\ launch.requests = 1
  /\ launch.queued
  /\ launch.polls > 0

\* the states of a launch still under way
Running == AppStates \ {"success", "failure", MissingState}

\* C28: poll_launch_status issues at most 30 polls whatever states the server
\* reports, stops at the first response whose state is success or failure, and
\* on an error with any other state ends by raising an exception carrying that
\* error instead of polling again.
C28_PollingTerminates ==
  /\ launch.polls <= 30
  /\ launch.count = 10 * launch.polls \/ launch.pc = "done"
  /\ launch.app_state \in {"success", "failure"} => launch.pc = "done"
  /\ (launch.app_state \in Running /\ launch.err # None)
       => (launch.pc = "done" /\ launch.end = "raise" /\ launch.exc = launch.err)

\* the server reported a launch under way thirty times, and the polling ended
C28_Witness ==
  /\ launch.polls = 30
  /\ launch.app_state \in Running
  /\ launch.pc = "done"
  /\ launch.end = "return"

====
